---- MODULE Spec2Model ----
(***************************************************************************)
(* Model of src/parser.py: the test-specification parser of autotest.      *)
(*                                                                         *)
(* parse_stream(stream, source_name) first runs parse_values over the      *)
(* whole stream (one loop iteration per input line), then folds the        *)
(* returned (line_number, values) list through parse_line_assignments      *)
(* into global_variables and tests.                                        *)
(*                                                                         *)
(* Input text is modelled at the level of the lexical tokens that Python's *)
(* tokenize.generate_tokens yields for it: a line is the sequence of its   *)
(* tokens (type, string, and whether the token starts exactly where the    *)
(* previous one ended); the NEWLINE/NL token that ends every line and the  *)
(* final ENDMARKER are added by generate_tokens below.  Multi-line         *)
(* statements are modelled through bracketed literals; triple-quoted       *)
(* strings are outside the input domain.                                   *)
(***************************************************************************)
EXTENDS Integers, Sequences, FiniteSets, TLC

VARIABLES
    stream,                \* the input: sequence of lines (parse_stream argument)
    source_name,           \* parse_stream argument
    pc,                    \* "parse_values" | "parse_stream" | "returned" | "raised"
    line_number,           \* parse_values: enumerate(stream, 1) counter (0 before the first line)
    combined_lines,        \* parse_values: pending buffer (the lines it holds)
    combined_lines_number, \* parse_values: line number of the buffer's first line
    parse,                 \* parse_values: list of <<line_number, values>>
    idx,                   \* parse_stream: position of the for loop in parse
    parameters,            \* parse_stream: result of the last parse_line_assignments call
    global_variables,      \* parse_stream: dict
    tests,                 \* parse_stream: list of dicts
    error                  \* the exception raised, if any: [msg, line]

vars == <<stream, source_name, pc, line_number, combined_lines,
          combined_lines_number, parse, idx, parameters, global_variables,
          tests, error>>

(* Bounds of the model *)

MaxLines == 3     \* longest input built from the lines of LineSet
MaxTokens == 6    \* longest generated single-statement input

(* Characters and strings *)

Chars(s) == { SubSeq(s, i, i) : i \in 1..Len(s) }

Digits == <<"0", "1", "2", "3", "4", "5", "6", "7", "8", "9">>

DigitSet == { Digits[i] : i \in 1..10 }

IdStartChars == {"a", "b", "c", "d", "e", "f", "g", "h", "i", "j", "k", "l",
                 "m", "n", "o", "p", "q", "r", "s", "t", "u", "v", "w", "x",
                 "y", "z", "_"}

\* str.isidentifier() on the ASCII strings of the model
isidentifier(s) ==
    /\ Len(s) > 0
    /\ SubSeq(s, 1, 1) \in IdStartChars
    /\ Chars(s) \subseteq IdStartChars \cup DigitSet

\* str(n) for a natural number n
RECURSIVE PyStr(_)
PyStr(n) ==
    IF n < 10 THEN Digits[n + 1]
    ELSE PyStr(n \div 10) \o Digits[(n % 10) + 1]

DigitValue(c) == CHOOSE d \in 0..9 : Digits[d + 1] = c

\* int(s) for a decimal literal s
RECURSIVE PyInt(_)
PyInt(s) ==
    IF Len(s) = 1 THEN DigitValue(s)
    ELSE 10 * PyInt(SubSeq(s, 1, Len(s) - 1)) + DigitValue(SubSeq(s, Len(s), Len(s)))

\* ast.literal_eval of a quoted string literal without escapes: the quotes go
literal_eval(s) == SubSeq(s, 2, Len(s) - 1)

\* repr of a string without quotes or escapes
repr(s) == "'" \o s \o "'"

(* Tokens *)

Tok(type, string, glued) == [type |-> type, string |-> string, glued |-> glued]

NameTok(s) == Tok("NAME", s, FALSE)
NumberTok(s) == Tok("NUMBER", s, FALSE)
OpTok(s) == Tok("OP", s, FALSE)
StringTok(s) == Tok("STRING", s, FALSE)
CommentTok(s) == Tok("COMMENT", s, FALSE)
ErrorTok(s) == Tok("ERRORTOKEN", s, FALSE)
Glued(tok) == [tok EXCEPT !.glued = TRUE]

NEWLINE == Tok("NEWLINE", "\n", FALSE)
ENDMARKER == Tok("ENDMARKER", "", FALSE)

IGNORE_TOKENS == {"COMMENT", "DEDENT", "ENCODING", "ENDMARKER", "INDENT", "NEWLINE", "NL"}

\* values: strings, stringized list literals, and the sentinel ASSIGNMENT (None)
Str(s) == [type |-> "str", chars |-> s]
List(s) == [type |-> "list", chars |-> s]
ASSIGNMENT == [type |-> "None", chars |-> ""]

get_token_characters(token) ==
    IF token.type = "STRING" THEN literal_eval(token.string) ELSE token.string

FakeToken(token1, token2) ==
    [type |-> "STRING",
     string |-> repr(get_token_characters(token1) \o get_token_characters(token2)),
     glued |-> token1.glued]

(* tokenize.generate_tokens over the buffer *)

RECURSIVE BufferText(_)
\* the tokens of the buffer's text: every line ends with its NEWLINE/NL token
BufferText(lines) ==
    IF lines = <<>> THEN <<>>
    ELSE Head(lines) \o <<NEWLINE>> \o BufferText(Tail(lines))

Openers == {"(", "[", "{"}
Closers == {")", "]", "}"}

RECURSIVE parenlev(_)
\* the tokenizer's bracket nesting level after the tokens toks
parenlev(toks) ==
    IF toks = <<>> THEN 0
    ELSE LET t == toks[Len(toks)]
             rest == parenlev(SubSeq(toks, 1, Len(toks) - 1))
         IN IF t.type = "OP" /\ t.string \in Openers THEN rest + 1
            ELSE IF t.type = "OP" /\ t.string \in Closers THEN rest - 1
            ELSE rest

\* generate_tokens yields the tokens of the text and then ENDMARKER, or raises
\* TokenError ("EOF in multi-line statement") at the end of the text when a
\* bracket is still open
generate_tokens(lines) ==
    LET text == BufferText(lines)
    IN IF parenlev(text) = 0
       THEN [tokens |-> Append(text, ENDMARKER), TokenError |-> FALSE]
       ELSE [tokens |-> text, TokenError |-> TRUE]

(* eval of the text that starts at a "[": a list literal of numbers, strings,
   names and nested lists, or a sum of such literals; dict literals are
   outside the input domain *)

RECURSIVE ExprTokens(_, _, _)
\* the tokens the expression grammar sees: no comments, no line breaks
\* inside brackets
ExprTokens(ts, i, depth) ==
    IF i > Len(ts) THEN <<>>
    ELSE LET t == ts[i]
             d == IF t.type = "OP" /\ t.string \in Openers THEN depth + 1
                  ELSE IF t.type = "OP" /\ t.string \in Closers THEN depth - 1
                  ELSE depth
         IN IF t.type = "COMMENT" \/ (t.type = "NEWLINE" /\ depth > 0)
            THEN ExprTokens(ts, i + 1, depth)
            ELSE <<t>> \o ExprTokens(ts, i + 1, d)

RECURSIVE StripNewlines(_)
\* trailing line breaks end the expression
StripNewlines(ts) ==
    IF ts # <<>> /\ ts[Len(ts)].type = "NEWLINE"
    THEN StripNewlines(SubSeq(ts, 1, Len(ts) - 1))
    ELSE ts

EvalFail == [ok |-> FALSE, next |-> 0, chars |-> "", name |-> FALSE]

JoinItem(chars, s) == IF chars = "" THEN s ELSE chars \o "," \o s

RECURSIVE ParseList(_, _), ParseItems(_, _, _, _, _)
\* a list display starting at ts[i]; chars renders its stringized items
ParseList(ts, i) ==
    IF i > Len(ts) \/ ts[i].type # "OP" \/ ts[i].string # "["
    THEN EvalFail
    ELSE ParseItems(ts, i + 1, "", FALSE, TRUE)

ParseItems(ts, i, chars, name, wantItem) ==
    IF i > Len(ts) THEN EvalFail
    ELSE LET t == ts[i]
         IN IF t.type = "OP" /\ t.string = "]"
            THEN [ok |-> TRUE, next |-> i + 1, chars |-> chars, name |-> name]
            ELSE IF ~wantItem
            THEN IF t.type = "OP" /\ t.string = ","
                 THEN ParseItems(ts, i + 1, chars, name, TRUE)
                 ELSE EvalFail
            ELSE IF t.type = "NUMBER"
            THEN ParseItems(ts, i + 1, JoinItem(chars, repr(PyStr(PyInt(t.string)))), name, FALSE)
            ELSE IF t.type = "STRING"
            THEN ParseItems(ts, i + 1, JoinItem(chars, repr(literal_eval(t.string))), name, FALSE)
            ELSE IF t.type = "NAME"
            THEN ParseItems(ts, i + 1, JoinItem(chars, t.string), TRUE, FALSE)
            ELSE IF t.type = "OP" /\ t.string = "["
            THEN LET r == ParseList(ts, i)
                 IN IF r.ok
                    THEN ParseItems(ts, r.next, JoinItem(chars, "[" \o r.chars \o "]"),
                                    name \/ r.name, FALSE)
                    ELSE EvalFail
            ELSE EvalFail

RECURSIVE ParseSum(_, _, _, _)
\* list ("+" list)* up to the end of ts
ParseSum(ts, i, chars, name) ==
    LET r == ParseList(ts, i)
    IN IF ~r.ok THEN EvalFail
       ELSE LET c == IF r.chars = "" THEN chars ELSE JoinItem(chars, r.chars)
                n == name \/ r.name
            IN IF r.next > Len(ts)
               THEN [ok |-> TRUE, next |-> r.next, chars |-> c, name |-> n]
               ELSE IF ts[r.next].type = "OP" /\ ts[r.next].string = "+"
               THEN ParseSum(ts, r.next + 1, c, n)
               ELSE EvalFail

\* stringize(eval(text)): "SyntaxError" when the text does not compile,
\* "NameError" when it names a variable, else the list with every leaf a string
stringize_eval(text) ==
    LET r == ParseSum(StripNewlines(ExprTokens(text, 1, 0)), 1, "", FALSE)
    IN IF ~r.ok THEN [status |-> "SyntaxError", value |-> ASSIGNMENT]
       ELSE IF r.name THEN [status |-> "NameError", value |-> ASSIGNMENT]
       ELSE [status |-> "ok", value |-> List("[" \o r.chars \o "]")]

(* parse_values: the body of the loop over the tokens of the buffer *)

HasEq(s) == "=" \in Chars(s)

Outcome(status, values, msg) == [status |-> status, values |-> values, msg |-> msg]

\* line 116: a token other than a string literal that contains "=" and more
disguised_assignment(token) ==
    token.type # "STRING" /\ HasEq(token.string) /\ Len(token.string) > 1

\* line 122: a "[" or "{" directly after "="
starts_literal(token, values, last_token) ==
    /\ token.string \in {"[", "{"}
    /\ values # <<>>
    /\ values[Len(values)] = ASSIGNMENT
    /\ last_token = <<>>

\* line 130: the token starts a new value rather than extending last_token
starts_value(token, last_token) ==
    last_token = <<>> \/ ~token.glued \/ token.string = "="

flush(values, last_token) ==
    IF last_token # <<>>
    THEN Append(values, Str(get_token_characters(last_token[1])))
    ELSE values

RECURSIVE token_loop(_, _, _, _, _)
\* toks[i..]: tokens still to come; TokenError: raised after the last one;
\* last_token: <<>> is None
token_loop(toks, i, values, last_token, TokenError) ==
    IF i > Len(toks)
    THEN IF TokenError
         THEN Outcome("continue", <<>>, "")
         ELSE Outcome("complete", flush(values, last_token), "")
    ELSE LET token == toks[i]
         IN IF token.type = "ERRORTOKEN"
            THEN Outcome("raise", <<>>, "syntax error")
            ELSE IF disguised_assignment(token)
            THEN Outcome("raise", <<>>, "syntax error in assignment")
            ELSE IF token.string = "" \/ token.type \in IGNORE_TOKENS
            THEN token_loop(toks, i + 1, values, last_token, TokenError)
            ELSE IF starts_literal(token, values, last_token)
            THEN \* line 124: combined_lines[token.start[1]:] is the text from the
                 \* token on, the token being on the first line of the buffer
                 \* in every input of the model
                 LET text == SelectSeq(SubSeq(toks, i, Len(toks)),
                                       LAMBDA t : t.type # "ENDMARKER")
                     e == stringize_eval(text)
                 IN IF e.status = "SyntaxError"
                    THEN Outcome("continue", <<>>, "")
                    ELSE IF e.status = "NameError"
                    THEN Outcome("raise", <<>>, "NameError")
                    ELSE Outcome("complete", Append(values, e.value), "")
            ELSE IF starts_value(token, last_token)
            THEN IF token.string = "="
                 THEN token_loop(toks, i + 1, Append(flush(values, last_token), ASSIGNMENT),
                                 <<>>, TokenError)
                 ELSE token_loop(toks, i + 1, flush(values, last_token), <<token>>, TokenError)
            ELSE token_loop(toks, i + 1, values, <<FakeToken(last_token[1], token)>>,
                            TokenError)

\* lines 107-147 for the buffer lines
tokenize_buffer(lines) ==
    LET g == generate_tokens(lines)
    IN token_loop(g.tokens, 1, <<>>, <<>>, g.TokenError)

(* dicts: functions from keys to parameter values.  A parameter value is a
   single item (a string or a stringized literal) or a Python list of items *)

EmptyDict == <<>>

Single(item) == [single |-> TRUE, items |-> <<item>>]
Items(items) == [single |-> FALSE, items |-> items]

dict_set(d, k, v) == [x \in DOMAIN d \cup {k} |-> IF x = k THEN v ELSE d[x]]

\* an update that keeps the value of a key that is already there
dict_update_keeps(d, p) ==
    [x \in DOMAIN d \cup DOMAIN p |-> IF x \in DOMAIN d THEN d[x] ELSE p[x]]

\* d.update(p)
dict_update(d, p) ==
    [x \in DOMAIN d \cup DOMAIN p |-> IF x \in DOMAIN p THEN p[x] ELSE d[x]]

(* parse_line_assignments *)

Result(ok, msg, assignments) == [ok |-> ok, msg |-> msg, assignments |-> assignments]

Raise(msg) == Result(FALSE, msg, EmptyDict)

\* truth value of last_word: <<>> is None, <<s>> the string s
truthy(last_word) == last_word # <<>> /\ last_word[1] # ""

\* lines 54-57, values being the items after the "="
assignment_syntax_error(last_word, values) ==
    \/ ~truthy(last_word)
    \/ ~isidentifier(last_word[1])
    \/ values = <<>>
    \/ values[1] = ASSIGNMENT

\* line 60 without its test
already_assigned_never(assignments, last_word) == FALSE

\* line 60
already_assigned(assignments, last_word) == last_word[1] \in DOMAIN assignments

\* line 63 without its lookahead
rhs_is_single_last(values) == Len(values) = 1

\* line 63
rhs_is_single(values) ==
    Len(values) = 1 \/ (Len(values) >= 3 /\ values[3] = ASSIGNMENT)

\* line 67: the loop goes on while values and values[1:2] != [ASSIGNMENT]
rhs_continues(values) ==
    values # <<>> /\ ~(Len(values) >= 2 /\ values[2] = ASSIGNMENT)

RECURSIVE rhs_length(_, _)
\* lines 66-68: how many items the loop pops, n being popped already
rhs_length(values, n) ==
    IF rhs_continues(SubSeq(values, n + 1, Len(values)))
    THEN rhs_length(values, n + 1)
    ELSE n

\* lines 73-76 and 80-83: the pending word becomes the label
set_label(assignments, last_word) ==
    IF truthy(last_word)
    THEN IF "label" \in DOMAIN assignments
         THEN Raise("error - multiple labels")
         ELSE Result(TRUE, "", dict_set(assignments, "label", Single(Str(last_word[1]))))
    ELSE Result(TRUE, "", assignments)

RECURSIVE assignment_loop(_, _, _)
\* lines 50-84
assignment_loop(values, assignments, last_word) ==
    IF values = <<>>
    THEN set_label(assignments, last_word)
    ELSE LET value == Head(values)
             rest == Tail(values)
         IN IF value = ASSIGNMENT
            THEN IF assignment_syntax_error(last_word, rest)
                 THEN Raise("syntax error in assignment")
                 ELSE IF already_assigned(assignments, last_word)
                 THEN Raise("error - multiple assignments to variable")
                 ELSE IF rhs_is_single(rest)
                 THEN assignment_loop(Tail(rest),
                                      dict_set(assignments, last_word[1], Single(rest[1])),
                                      <<>>)
                 ELSE LET n == rhs_length(rest, 0)
                      IN assignment_loop(SubSeq(rest, n + 1, Len(rest)),
                                         dict_set(assignments, last_word[1],
                                                  Items(SubSeq(rest, 1, n))),
                                         <<>>)
            ELSE IF value.type = "str"
            THEN LET l == set_label(assignments, last_word)
                 IN IF ~l.ok THEN l
                    ELSE assignment_loop(rest, l.assignments, <<value.chars>>)
            ELSE Raise("error - invalid test specification")

parse_line_assignments(values) == assignment_loop(values, EmptyDict, <<>>)

(* parse_stream *)

\* lines 35-38
new_test(globals, source, number, params) ==
    dict_update(dict_set(dict_set(globals, "source_name", Single(Str(source))),
                         "line_number", Single(Str(PyStr(number)))),
                params)

\* line 32 without its test: every statement sets global variables
next_globals_always(globals, params) == dict_update(globals, params)

\* line 32: a statement without a label sets global variables
next_globals(globals, params) ==
    IF "label" \notin DOMAIN params THEN dict_update(globals, params) ELSE globals

\* lines 34-39: a statement with a label is a test
next_tests(all, globals, source, number, params) ==
    IF "label" \notin DOMAIN params
    THEN all
    ELSE Append(all, new_test(globals, source, number, params))

(* The inputs *)

SourceNames == {"<test-string>"}

Word(s) == IF s \in DigitSet THEN NumberTok(s) ELSE NameTok(s)
Eq == OpTok("=")

Blank == <<>>
CommentLine == <<CommentTok("# aaaa")>>
CommentEqLine == <<CommentTok("# k=v")>>
GlobalA1 == <<Word("a"), Eq, Word("1")>>
GlobalA2 == <<Word("a"), Eq, Word("2")>>
GlobalSource == <<Word("source_name"), Eq, Word("x")>>
TestT == <<Word("t")>>
TestB == <<Word("u"), Word("b"), Eq, Word("1")>>
Greedy == <<Word("c"), Eq, Word("x"), Word("y"), Word("b"), Eq, Word("2")>>
TestLine == <<Word("t"), Word("line_number"), Eq, Word("7")>>
TwoLabelsTwice == <<Word("t"), Word("u"), Word("a"), Eq, Word("1"), Word("a"), Eq, Word("2")>>
Twice == <<Word("a"), Eq, Word("1"), Word("a"), Eq, Word("2")>>
Merged == <<Word("c"), Glued(Eq), Glued(OpTok("*")), Glued(OpTok(".")), Glued(Word("c"))>>
BadToken == <<Word("a"), Eq, ErrorTok("$")>>
ListLine == <<Word("v"), Eq, OpTok("["), Word("4"), OpTok(","), Word("5"), OpTok("]")>>
ListTrailing == <<Word("v"), Eq, OpTok("["), Word("4"), OpTok("]"), Word("x")>>
ListOpen == <<Word("v"), Eq, OpTok("["), Word("7"), OpTok(",")>>
ListSumOpen == <<Word("v"), Eq, OpTok("["), Word("7"), OpTok("]"), OpTok("+"), OpTok("[")>>
ListClose == <<Word("8"), OpTok("]")>>

LineSet == {Blank, CommentLine, CommentEqLine, GlobalA1, GlobalA2, GlobalSource,
            TestT, TestB, Greedy, TestLine, TwoLabelsTwice, Twice, Merged, BadToken,
            ListLine, ListTrailing, ListOpen, ListSumOpen, ListClose}

\* a line that closes a bracket continues a line that left one open
ClosesAfterOpen(s) ==
    \A n \in 1..Len(s) :
        s[n] = ListClose => n > 1 /\ s[n - 1] \in {ListOpen, ListSumOpen}

Documents ==
    { s \in UNION { [1..n -> LineSet] : n \in 0..MaxLines } : ClosesAfterOpen(s) }

\* the tokens of the generated statements: two names, a number, an empty
\* quoted string and the assignment operator
TokenSet == {Word("a"), Word("b"), Word("1"), StringTok("''"), Eq}

Statements == { <<l>> : l \in UNION { [1..n -> TokenSet] : n \in 1..MaxTokens } }

Inputs == Documents \cup Statements

Init ==
    /\ stream \in Inputs
    /\ source_name \in SourceNames
    /\ pc = "parse_values"
    /\ line_number = 0
    /\ combined_lines = <<>>
    /\ combined_lines_number = 1
    /\ parse = <<>>
    /\ idx = 1
    /\ parameters = EmptyDict
    /\ global_variables = EmptyDict
    /\ tests = <<>>
    /\ error = [msg |-> "", line |-> 0]

\* lines 104-105 without the test: the number follows every line
first_line_number_always(buffer, number, line) == line

\* lines 104-105
first_line_number(buffer, number, line) == IF buffer = <<>> THEN line ELSE number

\* parse_values, lines 103-150: one iteration of the loop over the lines
ReadLine ==
    /\ pc = "parse_values"
    /\ line_number < Len(stream)
    /\ LET n == line_number + 1
           first == first_line_number(combined_lines, combined_lines_number, n)
           buffer == Append(combined_lines, stream[n])
           t == tokenize_buffer(buffer)
       IN /\ line_number' = n
          /\ combined_lines_number' = first
          /\ IF t.status = "raise"
             THEN /\ pc' = "raised"
                  /\ error' = [msg |-> t.msg, line |-> n]
                  /\ combined_lines' = buffer
                  /\ parse' = parse
             ELSE IF t.status = "continue"
             THEN /\ combined_lines' = buffer
                  /\ UNCHANGED <<pc, error, parse>>
             ELSE /\ combined_lines' = <<>>
                  /\ parse' = Append(parse, <<first, t.values>>)
                  /\ UNCHANGED <<pc, error>>
    /\ UNCHANGED <<stream, source_name, idx, parameters, global_variables, tests>>

\* parse_values, lines 152-154: the stream is exhausted
EndOfStream ==
    /\ pc = "parse_values"
    /\ line_number = Len(stream)
    /\ IF combined_lines # <<>>
       THEN /\ pc' = "raised"
            /\ error' = [msg |-> "unclosed expression", line |-> combined_lines_number]
       ELSE /\ pc' = "parse_stream"
            /\ error' = error
    /\ UNCHANGED <<stream, source_name, line_number, combined_lines,
                   combined_lines_number, parse, idx, parameters,
                   global_variables, tests>>

\* parse_stream, lines 28-39: one iteration of the loop over the statements
Statement ==
    /\ pc = "parse_stream"
    /\ idx <= Len(parse)
    /\ LET number == parse[idx][1]
           values == parse[idx][2]
           r == parse_line_assignments(values)
       IN IF values = <<>>
          THEN /\ idx' = idx + 1
               /\ UNCHANGED <<pc, error, parameters, global_variables, tests>>
          ELSE IF ~r.ok
          THEN /\ pc' = "raised"
               /\ error' = [msg |-> r.msg, line |-> number]
               /\ UNCHANGED <<idx, parameters, global_variables, tests>>
          ELSE /\ idx' = idx + 1
               /\ parameters' = r.assignments
               /\ global_variables' = next_globals(global_variables, r.assignments)
               /\ tests' = next_tests(tests, global_variables, source_name, number,
                                      r.assignments)
               /\ UNCHANGED <<pc, error>>
    /\ UNCHANGED <<stream, source_name, line_number, combined_lines,
                   combined_lines_number, parse>>

\* parse_stream, line 40
Return ==
    /\ pc = "parse_stream"
    /\ idx > Len(parse)
    /\ pc' = "returned"
    /\ UNCHANGED <<stream, source_name, line_number, combined_lines,
                   combined_lines_number, parse, idx, parameters,
                   global_variables, tests, error>>

Next == ReadLine \/ EndOfStream \/ Statement \/ Return

Spec == Init /\ [][Next]_vars

(* Vocabulary of the properties *)

\* statement n of parse: its values and what parse_line_assignments makes of them
ValuesOf(n) == parse[n][2]
ParamsOf(n) == parse_line_assignments(ValuesOf(n)).assignments

\* the statements parse_stream has processed and accepted are 1..idx-1
Processed == 1..(idx - 1)

IsLabeled(n) == "label" \in DOMAIN ParamsOf(n)
IsUnlabeled(n) == ValuesOf(n) # <<>> /\ "label" \notin DOMAIN ParamsOf(n)

\* the descriptor of the labeled statement n
TestOf(n) == tests[Cardinality({m \in 1..n : IsLabeled(m)})]

\* the last statement before n that is unlabeled and assigns k, or 0
LastAssigning(k, n) ==
    LET S == {m \in 1..(n - 1) : IsUnlabeled(m) /\ k \in DOMAIN ParamsOf(m)}
    IN IF S = {} THEN 0 ELSE CHOOSE m \in S : \A x \in S : x <= m

\* the exception came from parse_line_assignments (parse_values had returned)
RaisedByResolver == pc = "raised" /\ combined_lines = <<>>

AssignPositions(v) == {p \in 1..Len(v) : v[p] = ASSIGNMENT}

\* the items before the first "=" other than the name it assigns
Unassociated(v) ==
    LET A == AssignPositions(v)
        first == IF A = {} THEN Len(v) + 1 ELSE CHOOSE p \in A : \A x \in A : p <= x
    IN IF A = {} THEN Len(v) ELSE IF first > 2 THEN first - 2 ELSE 0

\* C1: an input of blank lines and comment lines only, whatever the comments
\* contain, raises no error and yields no test descriptor
C1_BlankAndCommentInputIsEmpty ==
    (\A n \in 1..Len(stream) : \A i \in 1..Len(stream[n]) : stream[n][i].type = "COMMENT")
        => pc # "raised" /\ tests = <<>>

\* C2: every descriptor's source_name is str(source_name) and its line_number
\* is the string of the line its labeled statement began on, whatever the
\* statements assign
C2_ProvenanceOfDescriptors ==
    \A n \in Processed :
        IsLabeled(n) =>
            /\ TestOf(n)["source_name"] = Single(Str(source_name))
            /\ TestOf(n)["line_number"] = Single(Str(PyStr(parse[n][1])))

\* the keys K(n) of the globals reach the descriptor of every labeled statement n
\* that does not assign them, with the value of their last unlabeled assignment
InheritsGlobals(Excluded) ==
    \A n \in Processed :
        IsLabeled(n) =>
            \A m \in 1..(n - 1) :
                \A k \in DOMAIN ParamsOf(m) \ Excluded :
                    (m = LastAssigning(k, n) /\ k \notin DOMAIN ParamsOf(n))
                        => /\ k \in DOMAIN TestOf(n)
                           /\ TestOf(n)[k] = ParamsOf(m)[k]

\* C3 as stated: for every key k, the value of the most recent unlabeled
\* assignment to k is in the descriptor of a labeled statement that does not
\* assign k
C3_EveryGlobalInherited == InheritsGlobals({})

\* C3 amended: the same for every key other than source_name and line_number,
\* which the descriptor binds to the provenance of the statement
C3_GlobalInheritedExceptProvenance == InheritsGlobals({"source_name", "line_number"})

C3_Witness ==
    \E n \in Processed :
        /\ IsLabeled(n)
        /\ "a" \notin DOMAIN ParamsOf(n)
        /\ \E m1, m2 \in 1..(n - 1) :
               /\ m1 < m2
               /\ m2 = LastAssigning("a", n)
               /\ IsUnlabeled(m1)
               /\ "a" \in DOMAIN ParamsOf(m1)
               /\ ParamsOf(m1)["a"] # ParamsOf(m2)["a"]
               /\ TestOf(n)["a"] = ParamsOf(m2)["a"]

\* name, "=", item, "=" somewhere in v
Chained(v) ==
    \E p \in 1..Len(v) :
        /\ p + 3 <= Len(v)
        /\ v[p].type = "str"
        /\ v[p + 1] = ASSIGNMENT
        /\ v[p + 2] # ASSIGNMENT
        /\ v[p + 3] = ASSIGNMENT

\* C4: a chained assignment is rejected, never accepted, and no accepted
\* assignment binds its name to an empty right-hand side
C4_ChainedAssignmentRejected ==
    /\ \A n \in Processed : ~Chained(ValuesOf(n))
    /\ \A k \in DOMAIN parameters : parameters[k].items # <<>>

\* C5: a statement with two or more unassociated bare words, empty quoted
\* strings included, is never accepted: it is rejected with the
\* multiple-labels error
C5_SecondBareWordRejected ==
    /\ \A n \in Processed : Unassociated(ValuesOf(n)) <= 1
    /\ (RaisedByResolver /\ Unassociated(ValuesOf(idx)) >= 2)
           => error.msg = "error - multiple labels"

\* position p of v is an "=" with an identifier before it and an item after it
\* that is not the name of the next assignment
Assigns(v, p) ==
    /\ 1 < p
    /\ p < Len(v)
    /\ v[p] = ASSIGNMENT
    /\ v[p - 1].type = "str"
    /\ isidentifier(v[p - 1].chars)
    /\ v[p + 1] # ASSIGNMENT
    /\ p + 2 <= Len(v) => v[p + 2] # ASSIGNMENT

\* position p of v is an "=" with an identifier before it and an item after it
WellFormedAssign(v, p) ==
    /\ 1 < p
    /\ p < Len(v)
    /\ v[p] = ASSIGNMENT
    /\ v[p - 1].type = "str"
    /\ isidentifier(v[p - 1].chars)
    /\ v[p + 1] # ASSIGNMENT

\* the positions of the second assignments to an identifier in v
Reassignments(v) ==
    {q \in 1..Len(v) :
        /\ Assigns(v, q)
        /\ \E p \in 1..(q - 1) : Assigns(v, p) /\ v[p - 1] = v[q - 1]}

AssignedTwice(v) == Reassignments(v) # {}

\* nothing before the first reassignment in v is an error of its own: at most
\* one non-empty bare word before the first "=", and every "=" up to it has
\* an identifier before it and an item after it
CleanUpToReassignment(v) ==
    LET R == Reassignments(v)
        q == CHOOSE x \in R : \A y \in R : x <= y
        A == AssignPositions(v)
        first == CHOOSE x \in A : \A y \in A : x <= y
    IN /\ \A p \in A : p <= q => WellFormedAssign(v, p)
       /\ Cardinality({i \in 1..(first - 2) : v[i] # Str("")}) <= 1

\* the globals hold, for every key, the value of its last unlabeled assignment
LastWriteWins ==
    \A k \in DOMAIN global_variables :
        /\ LastAssigning(k, idx) # 0
        /\ global_variables[k] = ParamsOf(LastAssigning(k, idx))[k]

TrailingContent(line) ==
    \E i, j, k \in 1..Len(line) :
        /\ 1 < i /\ i < j /\ j < k
        /\ line[i - 1] = Eq
        /\ line[i].type = "OP" /\ line[i].string = "["
        /\ parenlev(SubSeq(line, i, j)) = 0
        /\ line[k].type # "COMMENT"

\* C7: a statement with trailing content after a structural literal fails with
\* a syntax error as soon as it is read: it is not kept as an incomplete
\* statement, no later line is appended to it, and it is never accepted
C7_TrailingContentFailsAtOnce ==
    /\ (combined_lines # <<>> /\ TrailingContent(combined_lines[1]))
           => /\ pc = "raised"
              /\ Len(combined_lines) = 1
              /\ error.msg # "unclosed expression"
    /\ \A n \in 1..Len(parse) : ~TrailingContent(stream[parse[n][1]])

\* C8: when the input ends with a non-empty buffer parse_values raises the
\* unclosed-expression error at the number of the first line placed in the
\* buffer; a statement that completes starts at that line and empties the
\* buffer, so that the next buffer starts at the next line read
C8_UnclosedAtFirstBufferLine ==
    [][/\ (pc = "parse_values" /\ line_number = Len(stream) /\ combined_lines # <<>>)
              => /\ pc' = "raised"
                 /\ error' = [msg |-> "unclosed expression",
                              line |-> Len(stream) - Len(combined_lines) + 1]
       /\ Len(parse') > Len(parse)
              => /\ combined_lines' = <<>>
                 /\ parse'[Len(parse')][1] = line_number' - Len(combined_lines)
       /\ combined_lines' # <<>>
              => combined_lines_number' = line_number' - Len(combined_lines') + 1
      ]_vars

C8_Witness ==
    /\ pc = "raised"
    /\ error.msg = "unclosed expression"
    /\ Len(parse) >= 1
    /\ Len(combined_lines) >= 2
    /\ error.line = Len(stream) - 1

\* the right-hand side C9 gives the "=" at position p of v: the next item
\* alone when it is the last one or the item two places after it is "=",
\* else the items up to the one before the next "=", or up to the end
ExpectedRhs(v, p) ==
    LET later == {q \in AssignPositions(v) : q > p}
        next == CHOOSE q \in later : \A x \in later : q <= x
    IN IF p + 1 = Len(v) \/ (p + 3 <= Len(v) /\ v[p + 3] = ASSIGNMENT)
       THEN Single(v[p + 1])
       ELSE IF later = {}
       THEN Items(SubSeq(v, p + 1, Len(v)))
       ELSE Items(SubSeq(v, p + 1, next - 2))

NamesOf(v) == { v[p - 1].chars : p \in AssignPositions(v) \ {1} }

\* the statement processed last, whose result parameters holds
LastStatement ==
    LET S == {n \in Processed : ValuesOf(n) # <<>>}
    IN IF S = {} THEN 0 ELSE CHOOSE n \in S : \A x \in S : x <= n

\* C9: in an accepted statement the item before each "=" is the assigned name
\* and is bound to the right-hand side described above; nothing else is
\* assigned, and a label comes from before the first assignment
C9_RightHandSides ==
    LastStatement # 0 =>
        LET v == ValuesOf(LastStatement)
            A == AssignPositions(v)
        IN /\ \A p \in A :
                  /\ p > 1
                  /\ v[p - 1].type = "str"
                  /\ v[p - 1].chars \in DOMAIN parameters
                  /\ parameters[v[p - 1].chars] = ExpectedRhs(v, p)
           /\ DOMAIN parameters \subseteq NamesOf(v) \cup {"label"}
           /\ Cardinality(DOMAIN parameters \ {"label"}) = Cardinality(A \ {p \in A : v[p - 1] = Str("label")})
           /\ (A # {} /\ "label" \in DOMAIN parameters /\ "label" \notin NamesOf(v))
                  => \E i \in 1..Len(v) :
                         /\ \A p \in A : i < p - 1
                         /\ parameters["label"] = Single(v[i])

C9_Witness ==
    /\ LastStatement # 0
    /\ \E k1, k2 \in DOMAIN parameters :
           /\ ~parameters[k1].single
           /\ Len(parameters[k1].items) = 2
           /\ parameters[k2].single
           /\ ValuesOf(LastStatement)[Len(ValuesOf(LastStatement))] = parameters[k2].items[1]

\* the keys unlabeled statements before n assign
GlobalKeysBefore(n) == UNION { DOMAIN ParamsOf(m) : m \in {x \in 1..(n - 1) : IsUnlabeled(x)} }

\* C10: a labeled statement leaves the globals as they are; the globals hold
\* the keys of the unlabeled statements only and never lose a key; a
\* descriptor has the keys of the globals, of its own statement and of the
\* provenance, and nothing of an earlier labeled statement
C10_LabeledStatementKeepsGlobals ==
    [][/\ (pc = "parse_stream" /\ idx <= Len(parse) /\ IsLabeled(idx))
              => global_variables' = global_variables
       /\ DOMAIN global_variables \subseteq DOMAIN global_variables'
       /\ DOMAIN global_variables' = GlobalKeysBefore(idx')
       /\ \A n \in 1..(idx' - 1) :
              IsLabeled(n) =>
                  DOMAIN tests'[Cardinality({m \in 1..n : IsLabeled(m)})]
                      = GlobalKeysBefore(n) \cup DOMAIN ParamsOf(n)
                            \cup {"source_name", "line_number"}
      ]_vars

C10_Witness ==
    /\ Len(tests) >= 2
    /\ "b" \in DOMAIN tests[1]
    /\ "b" \notin DOMAIN tests[2]
    /\ "a" \in DOMAIN global_variables
    /\ "a" \in DOMAIN tests[2]

====
